---- MODULE Spec2Model ----
(***************************************************************************)
(* AnPU Nano emulator (src/src/main.rs): the EmulatorState aggregate, its  *)
(* fetch-decode-execute cycle, the resets, the program loader and the key  *)
(* dispatch of main's event loop.  Terminal drawing is left out: it reads  *)
(* the aggregate and writes only to the terminal.                          *)
(***************************************************************************)
EXTENDS Integers, Sequences, FiniteSets, TLC

(***************************************************************************)
(* Bounds of the model.                                                    *)
(***************************************************************************)
\* cycles explored between two resets (executed_instructions is a usize)
MaxInstr == 6

(***************************************************************************)
(* Sizes and widths set by the source.                                     *)
(***************************************************************************)
RomSize == 64
RamSize == 32
RegCount == 8
FlagCount == 16
LogSize == 7
WordMod == 65536
ByteMod == 256
U16Mod == 65536
WordBits == 16
RomLineLen == 16
RamLineLen == 8

(***************************************************************************)
(* Text: a string is a sequence of one-character strings.                  *)
(***************************************************************************)
RECURSIVE Bin(_)
\* format!("{n:b}"): the shortest binary numeral of n
Bin(n) ==
    IF n < 2 THEN <<IF n = 0 THEN "0" ELSE "1">>
    ELSE Bin(n \div 2) \o <<IF n % 2 = 0 THEN "0" ELSE "1">>

RECURSIVE PadZero(_, _)
\* format!("{s:0>0$}", w): s right-aligned in width w, filled with '0'
PadZero(s, w) == IF Len(s) >= w THEN s ELSE PadZero(<<"0">> \o s, w)

RECURSIVE Digits2(_, _)
\* the value of a run of binary digits after acc, or -1 on any other character
Digits2(s, acc) ==
    IF s = <<>> THEN acc
    ELSE IF Head(s) = "0" THEN Digits2(Tail(s), 2 * acc)
    ELSE IF Head(s) = "1" THEN Digits2(Tail(s), 2 * acc + 1)
    ELSE -1

\* uN::from_str_radix(s, 2) for an unsigned type wide enough for s:
\* Err (-1) on the empty string, on a lone sign and on any non-digit; one
\* leading '+' is accepted
from_str_radix(s) ==
    IF s = <<>> THEN -1
    ELSE IF Head(s) = "+" THEN (IF Len(s) = 1 THEN -1 ELSE Digits2(Tail(s), 0))
    ELSE Digits2(s, 0)

\* &instruction[from..to] (0-based, to exclusive)
Slice(s, from, to) == SubSeq(s, from + 1, to)

(***************************************************************************)
(* Bitwise operators on u16 values.                                        *)
(***************************************************************************)
RECURSIVE BitOp(_, _, _, _)
\* w low bits of x (op) y, op given by its truth table on (0,0),(0,1),(1,0),(1,1)
BitOp(tt, x, y, w) ==
    IF w = 0 THEN 0
    ELSE tt[2 * (x % 2) + (y % 2) + 1] + 2 * BitOp(tt, x \div 2, y \div 2, w - 1)

BitAnd(x, y) == BitOp(<<0, 0, 0, 1>>, x, y, WordBits)
BitOr(x, y) == BitOp(<<0, 1, 1, 1>>, x, y, WordBits)
BitXor(x, y) == BitOp(<<0, 1, 1, 0>>, x, y, WordBits)
\* !x on a u16
BitNot(x) == (U16Mod - 1) - x
\* x >> 1
Shr1(x) == x \div 2
\* boolean ^
BoolXor(p, q) == p # q

\* u16 addition and subtraction as a build without overflow checks computes them
U16Add(x, y) == (x + y) % U16Mod
U16Sub(x, y) == (x - y) % U16Mod

(***************************************************************************)
(* Mode                                                                    *)
(***************************************************************************)
Setup == <<"Setup">>
ManualStep == <<"ManualStep">>
Automatic(rate) == <<"Automatic", rate>>
IsAutomatic(m) == m[1] = "Automatic"

None == <<>>
Some(x) == <<x>>

VARIABLES
    emulator,   \* the EmulatorState aggregate
    path_idx,   \* main's index into the directory listing
    status      \* "running", "quit" (main returned) or "panicked"

vars == <<emulator, path_idx, status>>

(***************************************************************************)
(* EmulatorState: resets, trace log, stores.  Each operator takes the      *)
(* aggregate e (&mut self) and yields the aggregate after the call.        *)
(***************************************************************************)
\* A trace line is kept as the tuple of the values formatted into it; a
\* pushed line is padded to at least 22 characters, so it never equals the
\* empty string of an unused slot, which is <<>> here.
EmptyLine == <<>>

\* a shift that leaves entry 0 in place
push_log_keeps_oldest(e, new_entry) ==
    [e EXCEPT !.log_buffer =
        [i \in 0..(LogSize - 1) |->
            IF i = 0 THEN e.log_buffer[0]
            ELSE IF i < LogSize - 1 THEN e.log_buffer[i + 1] ELSE new_entry]]

push_log(e, new_entry) ==
    [e EXCEPT !.log_buffer =
        [i \in 0..(LogSize - 1) |->
            IF i < LogSize - 1 THEN e.log_buffer[i + 1] ELSE new_entry]]

reset_last_mods(e) ==
    [e EXCEPT !.current_rom_read = None,
              !.current_ram_write = None,
              !.current_reg_write = None]

\* program_reset without self.flg[15] = true
program_reset_no_sentinel(e) ==
    LET e1 == [e EXCEPT !.ram = [i \in 0..(RamSize - 1) |-> 0],
                        !.reg = [i \in 0..(RegCount - 1) |-> 0],
                        !.inp = [i \in 0..(RegCount - 1) |-> 0],
                        !.out = [i \in 0..(RegCount - 1) |-> 0],
                        !.flg = [i \in 0..(FlagCount - 1) |-> FALSE],
                        !.pc = 0,
                        !.mode = Setup,
                        !.log_buffer = [i \in 0..(LogSize - 1) |-> EmptyLine]]
        e2 == push_log(e1, <<"Ex. instr:", e1.executed_instructions>>)
        e3 == [e2 EXCEPT !.executed_instructions = 0]
    IN  reset_last_mods(e3)

\* program_reset without self.executed_instructions = 0
program_reset_keeps_count(e) ==
    LET e1 == [e EXCEPT !.ram = [i \in 0..(RamSize - 1) |-> 0],
                        !.reg = [i \in 0..(RegCount - 1) |-> 0],
                        !.inp = [i \in 0..(RegCount - 1) |-> 0],
                        !.out = [i \in 0..(RegCount - 1) |-> 0],
                        !.flg = [i \in 0..(FlagCount - 1) |-> i = 15],
                        !.pc = 0,
                        !.mode = Setup,
                        !.log_buffer = [i \in 0..(LogSize - 1) |-> EmptyLine]]
        e2 == push_log(e1, <<"Ex. instr:", e1.executed_instructions>>)
    IN  reset_last_mods(e2)

program_reset(e) ==
    LET e1 == [e EXCEPT !.ram = [i \in 0..(RamSize - 1) |-> 0],
                        !.reg = [i \in 0..(RegCount - 1) |-> 0],
                        !.inp = [i \in 0..(RegCount - 1) |-> 0],
                        !.out = [i \in 0..(RegCount - 1) |-> 0],
                        !.flg = [i \in 0..(FlagCount - 1) |-> i = 15],
                        !.pc = 0,
                        !.mode = Setup,
                        !.log_buffer = [i \in 0..(LogSize - 1) |-> EmptyLine]]
        e2 == push_log(e1, <<"Ex. instr:", e1.executed_instructions>>)
        e3 == [e2 EXCEPT !.executed_instructions = 0]
    IN  reset_last_mods(e3)

\* full_reset without self.rom = [0; 64]
full_reset_keeps_rom(e) ==
    program_reset(e)

full_reset(e) ==
    program_reset([e EXCEPT !.rom = [i \in 0..(RomSize - 1) |-> 0]])

write_to_rom(e, idx, val) ==
    [e EXCEPT !.rom[idx % RomSize] = val % WordMod]

\* the value read_from_rom returns
rom_value(e, idx) == e.rom[idx % RomSize]

\* the aggregate after read_from_rom
read_from_rom(e, idx) ==
    [e EXCEPT !.current_rom_read = Some(idx % RomSize)]

\* write_to_ram wrapping the index with the register file's size
write_to_ram_mod8(e, idx, val) ==
    [e EXCEPT !.ram[idx % RegCount] = val % ByteMod,
              !.current_ram_write = Some(idx % RegCount)]

write_to_ram(e, idx, val) ==
    [e EXCEPT !.ram[idx % RamSize] = val % ByteMod,
              !.current_ram_write = Some(idx % RamSize)]

write_to_regs(e, idx, val) ==
    [e EXCEPT !.reg[idx % RegCount] = val % ByteMod,
              !.current_reg_write = Some(idx % RegCount)]

\* self.pc += 1 on a u16, as a build without overflow checks computes it
pc_inc(e) == [e EXCEPT !.pc = U16Add(e.pc, 1)]

(***************************************************************************)
(* cycle: one arm per opcode.  ins is the 16-character binary text of the  *)
(* fetched word; each arm yields the aggregate after the arm in a build    *)
(* whose u16 arithmetic wraps.                                             *)
(***************************************************************************)
\* from_str_radix(&instruction[from..to], 2).unwrap()
Field(ins, from, to) == from_str_radix(Slice(ins, from, to))

\* HALT without self.mode = Setup
op_halt_keeps_mode(e, ins) ==
    push_log(pc_inc(e), <<"int">>)

\* HALT without self.pc += 1
op_halt_keeps_pc(e, ins) ==
    push_log([e EXCEPT !.mode = Setup], <<"int">>)

\* a HALT that sends pc back to 0
op_halt_resets_pc(e, ins) ==
    push_log([e EXCEPT !.mode = Setup, !.pc = 0], <<"int">>)

op_halt(e, ins) ==
    push_log(pc_inc([e EXCEPT !.mode = Setup]), <<"int">>)

\* flags 0..7 of ADD from the operand values x = reg[src_a % 8], y = reg[src_b % 8]
add_flags(e, x, y) ==
    LET f2 == BitAnd(U16Add(x % 256, y % 256), 256) # 0
        f4 == BoolXor(BitAnd(U16Add(x % 128, y % 128), 128) # 0, f2)
    IN  [e EXCEPT !.flg[0] = (U16Add(x, y) % 256 = 0),
                  !.flg[1] = (U16Add(x, y) % 256 # 0),
                  !.flg[2] = f2,
                  !.flg[3] = (BitAnd(U16Add(x % 256, y % 256), 256) = 0),
                  !.flg[4] = f4,
                  !.flg[5] = ~f4,
                  !.flg[6] = (U16Add(x, y) % 2 = 0),
                  !.flg[7] = (U16Add(x, y) % 2 # 0)]

\* ADD writing the register before it derives the flags
op_add_flags_after_write(e, ins) ==
    LET dest == Field(ins, 4, 8)
        src_a == Field(ins, 8, 12)
        src_b == Field(ins, 12, 16)
        e1 == write_to_regs(e, dest % 8, U16Add(e.reg[src_a % 8], e.reg[src_b % 8]) % 256)
        e2 == add_flags(e1, e1.reg[src_a % 8], e1.reg[src_b % 8])
    IN  push_log(pc_inc(e2), <<"add", dest % 8, src_a % 8, src_b % 8>>)

op_add(e, ins) ==
    LET dest == Field(ins, 4, 8)
        src_a == Field(ins, 8, 12)
        src_b == Field(ins, 12, 16)
        x == e.reg[src_a % 8]
        y == e.reg[src_b % 8]
        e1 == add_flags(e, x, y)
        e2 == write_to_regs(e1, dest % 8, U16Add(x, y) % 256)
    IN  push_log(pc_inc(e2), <<"add", dest % 8, src_a % 8, src_b % 8>>)

\* SUB taking flag 4 from bit 7 of the 7-bit difference alone
sub_flags_no_borrow(e, x, y) ==
    LET f4 == BitAnd(U16Sub(x % 128, y % 128), 128) # 0
    IN  [e EXCEPT !.flg[0] = (U16Sub(x, y) % 256 = 0),
                  !.flg[1] = (U16Sub(x, y) % 256 # 0),
                  !.flg[2] = (BitAnd(U16Sub(x % 256, y % 256), 256) # 0),
                  !.flg[3] = (BitAnd(U16Sub(x % 256, y % 256), 256) = 0),
                  !.flg[4] = f4,
                  !.flg[5] = ~f4,
                  !.flg[6] = (U16Sub(x, y) % 2 = 0),
                  !.flg[7] = (U16Sub(x, y) % 2 # 0)]

\* flags 0..7 of SUB from the operand values
sub_flags(e, x, y) ==
    LET f2 == BitAnd(U16Sub(x % 256, y % 256), 256) # 0
        f4 == BoolXor(BitAnd(U16Sub(x % 128, y % 128), 128) # 0, f2)
    IN  [e EXCEPT !.flg[0] = (U16Sub(x, y) % 256 = 0),
                  !.flg[1] = (U16Sub(x, y) % 256 # 0),
                  !.flg[2] = f2,
                  !.flg[3] = (BitAnd(U16Sub(x % 256, y % 256), 256) = 0),
                  !.flg[4] = f4,
                  !.flg[5] = ~f4,
                  !.flg[6] = (U16Sub(x, y) % 2 = 0),
                  !.flg[7] = (U16Sub(x, y) % 2 # 0)]

op_sub(e, ins) ==
    LET dest == Field(ins, 4, 8)
        src_a == Field(ins, 8, 12)
        src_b == Field(ins, 12, 16)
        x == e.reg[src_a % 8]
        y == e.reg[src_b % 8]
        e1 == sub_flags(e, x, y)
        e2 == write_to_regs(e1, dest % 8, U16Sub(x, y) % 256)
    IN  push_log(pc_inc(e2), <<"sub", dest % 8, src_a % 8, src_b % 8>>)

\* the u16 subtractions of the SUB arm that go below zero: a build with
\* overflow checks panics at the first of them
sub_overflows(e, ins) ==
    LET x == e.reg[Field(ins, 8, 12) % 8]
        y == e.reg[Field(ins, 12, 16) % 8]
    IN  x < y \/ x % 128 < y % 128

\* the logic flags set on a cleared flag array
logic_flags_clear_all(e, r) ==
    [e EXCEPT !.flg = [i \in 0..(FlagCount - 1) |->
                         IF i = 0 THEN r % 256 = 0
                         ELSE IF i = 1 THEN r % 256 # 0
                         ELSE IF i = 6 THEN r % 2 = 0
                         ELSE IF i = 7 THEN r % 2 # 0
                         ELSE FALSE]]

\* flags 0..7 of AND, NOR, XOR and RSH from the u16 result r
logic_flags(e, r) ==
    [e EXCEPT !.flg[0] = (r % 256 = 0),
              !.flg[1] = (r % 256 # 0),
              !.flg[2] = FALSE,
              !.flg[3] = FALSE,
              !.flg[4] = FALSE,
              !.flg[5] = FALSE,
              !.flg[6] = (r % 2 = 0),
              !.flg[7] = (r % 2 # 0)]

op_and(e, ins) ==
    LET dest == Field(ins, 4, 8)
        src_a == Field(ins, 8, 12)
        src_b == Field(ins, 12, 16)
        r == BitAnd(e.reg[src_a % 8], e.reg[src_b % 8])
        e2 == write_to_regs(logic_flags(e, r), dest % 8, r % 256)
    IN  push_log(pc_inc(e2), <<"and", dest % 8, src_a % 8, src_b % 8>>)

\* NOR storing its u16 result in the register array itself
op_nor_direct(e, ins) ==
    LET dest == Field(ins, 4, 8)
        src_a == Field(ins, 8, 12)
        src_b == Field(ins, 12, 16)
        r == BitNot(BitOr(e.reg[src_a % 8], e.reg[src_b % 8]))
        e2 == [logic_flags(e, r) EXCEPT !.reg[dest % 8] = r,
                                        !.current_reg_write = Some(dest % 8)]
    IN  push_log(pc_inc(e2), <<"nor", dest % 8, src_a % 8, src_b % 8>>)

op_nor(e, ins) ==
    LET dest == Field(ins, 4, 8)
        src_a == Field(ins, 8, 12)
        src_b == Field(ins, 12, 16)
        r == BitNot(BitOr(e.reg[src_a % 8], e.reg[src_b % 8]))
        e2 == write_to_regs(logic_flags(e, r), dest % 8, r % 256)
    IN  push_log(pc_inc(e2), <<"nor", dest % 8, src_a % 8, src_b % 8>>)

op_xor(e, ins) ==
    LET dest == Field(ins, 4, 8)
        src_a == Field(ins, 8, 12)
        src_b == Field(ins, 12, 16)
        r == BitXor(e.reg[src_a % 8], e.reg[src_b % 8])
        e2 == write_to_regs(logic_flags(e, r), dest % 8, r % 256)
    IN  push_log(pc_inc(e2), <<"xor", dest % 8, src_a % 8, src_b % 8>>)

\* RSH deriving its flags from the value before the shift
op_rsh_flags_of_source(e, ins) ==
    LET dest == Field(ins, 4, 8)
        src_a == Field(ins, 8, 12)
        r == Shr1(e.reg[src_a % 8])
        e2 == write_to_regs(logic_flags(e, e.reg[src_a % 8]), dest % 8, r % 256)
    IN  push_log(pc_inc(e2), <<"rsh", dest % 8, src_a % 8>>)

op_rsh(e, ins) ==
    LET dest == Field(ins, 4, 8)
        src_a == Field(ins, 8, 12)
        r == Shr1(e.reg[src_a % 8])
        e2 == write_to_regs(logic_flags(e, r), dest % 8, r % 256)
    IN  push_log(pc_inc(e2), <<"rsh", dest % 8, src_a % 8>>)

\* CMP reading its operands where the other arms do: bits 4..8 and 8..12
op_cmp_dest_field(e, ins) ==
    LET src_a == Field(ins, 4, 8)
        src_b == Field(ins, 8, 12)
        a == e.reg[src_a % 8] % 256
        b == e.reg[src_b % 8] % 256
        e1 == [e EXCEPT !.flg[8] = (a > b),
                        !.flg[9] = (a <= b),
                        !.flg[10] = (a < b),
                        !.flg[11] = (a >= b),
                        !.flg[12] = (a = b),
                        !.flg[13] = (a # b),
                        !.flg[14] = FALSE,
                        !.flg[15] = TRUE]
    IN  push_log(pc_inc(e1), <<"cmp", src_a % 8, src_b % 8>>)

\* CMP with flag 9 set as flag 10 is (a < b in place of a <= b)
op_cmp_strict_le(e, ins) ==
    LET src_a == Field(ins, 8, 12)
        src_b == Field(ins, 12, 16)
        a == e.reg[src_a % 8] % 256
        b == e.reg[src_b % 8] % 256
        e1 == [e EXCEPT !.flg[8] = (a > b),
                        !.flg[9] = (a < b),
                        !.flg[10] = (a < b),
                        !.flg[11] = (a >= b),
                        !.flg[12] = (a = b),
                        !.flg[13] = (a # b),
                        !.flg[14] = FALSE,
                        !.flg[15] = TRUE]
    IN  push_log(pc_inc(e1), <<"cmp", src_a % 8, src_b % 8>>)

op_cmp(e, ins) ==
    LET src_a == Field(ins, 8, 12)
        src_b == Field(ins, 12, 16)
        a == e.reg[src_a % 8] % 256
        b == e.reg[src_b % 8] % 256
        e1 == [e EXCEPT !.flg[8] = (a > b),
                        !.flg[9] = (a <= b),
                        !.flg[10] = (a < b),
                        !.flg[11] = (a >= b),
                        !.flg[12] = (a = b),
                        !.flg[13] = (a # b),
                        !.flg[14] = FALSE,
                        !.flg[15] = TRUE]
    IN  push_log(pc_inc(e1), <<"cmp", src_a % 8, src_b % 8>>)

\* LDI setting the zero flags from the immediate
op_ldi_sets_zero(e, ins) ==
    LET dest == Field(ins, 4, 8)
        imm == Field(ins, 8, 16)
        e1 == write_to_regs([e EXCEPT !.flg[0] = (imm % 256 = 0),
                                      !.flg[1] = (imm % 256 # 0)],
                            dest % 8, imm % 256)
    IN  push_log(pc_inc(e1), <<"imm", dest % 8, imm % 256>>)

op_ldi(e, ins) ==
    LET dest == Field(ins, 4, 8)
        imm == Field(ins, 8, 16)
        e1 == write_to_regs(e, dest % 8, imm % 256)
    IN  push_log(pc_inc(e1), <<"imm", dest % 8, imm % 256>>)

\* a load from the cell after the addressed one
op_ldm_next_cell(e, ins) ==
    LET dest == Field(ins, 4, 8)
        addr == Field(ins, 8, 16)
        e1 == write_to_regs(e, dest % 8, e.ram[(addr + 1) % 32])
    IN  push_log(pc_inc(e1), <<"dml", dest % 8, addr % 32>>)

op_ldm(e, ins) ==
    LET dest == Field(ins, 4, 8)
        addr == Field(ins, 8, 16)
        e1 == write_to_regs(e, dest % 8, e.ram[addr % 32])
    IN  push_log(pc_inc(e1), <<"dml", dest % 8, addr % 32>>)

\* STM without its push_log
op_stm_silent(e, ins) ==
    LET src == Field(ins, 4, 8)
        addr == Field(ins, 8, 16)
    IN  pc_inc(write_to_ram(e, addr % 32, e.reg[src % 8]))

op_stm(e, ins) ==
    LET src == Field(ins, 4, 8)
        addr == Field(ins, 8, 16)
        e1 == write_to_ram(e, addr % 32, e.reg[src % 8])
    IN  push_log(pc_inc(e1), <<"dms", src % 8, addr % 32>>)

\* LDP with the self.mode = Setup of the HALT arm
op_ldp_sets_setup(e, ins) ==
    LET dest == Field(ins, 4, 8)
        ptr == Field(ins, 8, 12)
        e1 == write_to_regs([e EXCEPT !.mode = Setup], dest, e.ram[e.reg[ptr % 8] % 32])
    IN  push_log(pc_inc(e1), <<"iml", dest % 8, ptr % 8>>)

op_ldp(e, ins) ==
    LET dest == Field(ins, 4, 8)
        ptr == Field(ins, 8, 12)
        e1 == write_to_regs(e, dest, e.ram[e.reg[ptr % 8] % 32])
    IN  push_log(pc_inc(e1), <<"iml", dest % 8, ptr % 8>>)

\* a store through a pointer that lands in the instruction store
op_stp_to_rom(e, ins) ==
    LET src == Field(ins, 12, 16)
        ptr == Field(ins, 8, 12)
        e1 == write_to_rom(e, e.reg[ptr % 8] % 32, e.reg[src % 8])
    IN  push_log(pc_inc(e1), <<"ims", ptr % 8, src % 8>>)

op_stp(e, ins) ==
    LET src == Field(ins, 12, 16)
        ptr == Field(ins, 8, 12)
        e1 == write_to_ram(e, e.reg[ptr % 8] % 32, e.reg[src % 8])
    IN  push_log(pc_inc(e1), <<"ims", ptr % 8, src % 8>>)

op_brc(e, ins) ==
    LET cond == Field(ins, 4, 8)
        addr == Field(ins, 8, 16)
        e1 == IF e.flg[cond % 16] THEN [e EXCEPT !.pc = addr % 64] ELSE pc_inc(e)
    IN  push_log(e1, <<"brc", cond % 16, addr % 64>>)

\* BRP reading its pointer from bits 8..12
op_brp_middle_field(e, ins) ==
    LET cond == Field(ins, 4, 8)
        ptr == Field(ins, 8, 12)
        e1 == IF e.flg[cond % 16] THEN [e EXCEPT !.pc = e.reg[ptr % 8] % 64]
              ELSE pc_inc(e)
    IN  push_log(e1, <<"ibr", cond % 16, 0, ptr % 8>>)

op_brp(e, ins) ==
    LET cond == Field(ins, 4, 8)
        ptr == Field(ins, 12, 16)
        e1 == IF e.flg[cond % 16] THEN [e EXCEPT !.pc = e.reg[ptr % 8] % 64]
              ELSE pc_inc(e)
    IN  push_log(e1, <<"ibr", cond % 16, 0, ptr % 8>>)

\* JMP storing addr in pc without % 64
op_jmp_no_wrap(e, ins) ==
    LET addr == Field(ins, 4, 16)
    IN  push_log([e EXCEPT !.pc = addr], <<"jmp", addr % 64>>)

op_jmp(e, ins) ==
    LET addr == Field(ins, 4, 16)
    IN  push_log([e EXCEPT !.pc = addr % 64], <<"jmp", addr % 64>>)

op_unknown(e, ins) ==
    push_log(pc_inc(e), <<"unknown opcode">>)

\* the 16-character instruction text of the word cycle fetches
instruction_of(e) == PadZero(Bin(rom_value(e, e.pc)), 16)

\* &instruction[0..4]
opcode_of(ins) == Slice(ins, 0, 4)

\* the aggregate after the fetch: read_from_rom(self.pc), executed_instructions += 1
cycle_fetch(e) ==
    [read_from_rom(e, e.pc) EXCEPT !.executed_instructions = @ + 1]

\* the match on the opcode
cycle_execute(e, ins) ==
    LET opcode == opcode_of(ins)
    IN  CASE opcode = <<"0", "0", "0", "0">> -> op_halt(e, ins)
          [] opcode = <<"0", "0", "0", "1">> -> op_add(e, ins)
          [] opcode = <<"0", "0", "1", "0">> -> op_sub(e, ins)
          [] opcode = <<"0", "0", "1", "1">> -> op_and(e, ins)
          [] opcode = <<"0", "1", "0", "0">> -> op_nor(e, ins)
          [] opcode = <<"0", "1", "0", "1">> -> op_xor(e, ins)
          [] opcode = <<"0", "1", "1", "0">> -> op_rsh(e, ins)
          [] opcode = <<"0", "1", "1", "1">> -> op_cmp(e, ins)
          [] opcode = <<"1", "0", "0", "0">> -> op_ldi(e, ins)
          [] opcode = <<"1", "0", "0", "1">> -> op_ldm(e, ins)
          [] opcode = <<"1", "0", "1", "0">> -> op_stm(e, ins)
          [] opcode = <<"1", "0", "1", "1">> -> op_ldp(e, ins)
          [] opcode = <<"1", "1", "0", "0">> -> op_stp(e, ins)
          [] opcode = <<"1", "1", "0", "1">> -> op_brc(e, ins)
          [] opcode = <<"1", "1", "1", "0">> -> op_brp(e, ins)
          [] opcode = <<"1", "1", "1", "1">> -> op_jmp(e, ins)
          [] OTHER -> op_unknown(e, ins)

\* cycle in a build whose u16 arithmetic wraps
cycle(e) == cycle_execute(cycle_fetch(e), instruction_of(e))

\* whether the arm taken increments pc (every arm but JMP and a taken branch)
increments_pc(e, ins) ==
    LET opcode == opcode_of(ins)
    IN  CASE opcode = <<"1", "1", "1", "1">> -> FALSE
          [] opcode = <<"1", "1", "0", "1">> -> ~e.flg[Field(ins, 4, 8) % 16]
          [] opcode = <<"1", "1", "1", "0">> -> ~e.flg[Field(ins, 4, 8) % 16]
          [] OTHER -> TRUE

\* whether cycle performs a u16 operation that overflows: a build with
\* overflow checks (the default of a debug build) panics there
cycle_overflows(e) ==
    LET ins == instruction_of(e)
    IN  \/ opcode_of(ins) = <<"0", "0", "1", "0">> /\ sub_overflows(e, ins)
        \/ increments_pc(e, ins) /\ e.pc = U16Mod - 1

\* the aggregate as the panic leaves it: SUB panics in its first flag
\* computation, right after the fetch, when a < b, and else in the flag 4
\* computation, with flags 0..3 written; a pc overflow panics after the arm's
\* writes and before its push_log
cycle_panicked(e) ==
    LET ins == instruction_of(e)
        x == e.reg[Field(ins, 8, 12) % 8]
        y == e.reg[Field(ins, 12, 16) % 8]
        f == cycle_fetch(e)
    IN  IF opcode_of(ins) = <<"0", "0", "1", "0">> /\ sub_overflows(e, ins)
        THEN IF x < y THEN f
             ELSE [f EXCEPT !.flg[0] = (U16Sub(x, y) % 256 = 0),
                            !.flg[1] = (U16Sub(x, y) % 256 # 0),
                            !.flg[2] = FALSE,
                            !.flg[3] = TRUE]
        ELSE [cycle(e) EXCEPT !.pc = e.pc, !.log_buffer = e.log_buffer]

(***************************************************************************)
(* load_from_file.  A source is Unreadable (fs::read_to_string failed) or  *)
(* Readable with the sequence of its lines as v.split('\n') yields them.   *)
(***************************************************************************)
Unreadable == [readable |-> FALSE, lines |-> <<>>]
Readable(lines) == [readable |-> TRUE, lines |-> lines]

Whitespace == {" ", "\r", "\t"}

RECURSIVE TrimStart(_)
TrimStart(s) ==
    IF s # <<>> /\ Head(s) \in Whitespace THEN TrimStart(Tail(s)) ELSE s

RECURSIVE TrimEnd(_)
TrimEnd(s) ==
    IF s # <<>> /\ s[Len(s)] \in Whitespace
    THEN TrimEnd(SubSeq(s, 1, Len(s) - 1)) ELSE s

\* x.trim()
Trim(s) == TrimEnd(TrimStart(s))

\* characters whose UTF-8 encoding takes two bytes
TwoByteChars == {"é"}

RECURSIVE ByteLen(_)
\* line.len(): the length in bytes
ByteLen(s) ==
    IF s = <<>> THEN 0
    ELSE (IF Head(s) \in TwoByteChars THEN 2 ELSE 1) + ByteLen(Tail(s))

RECURSIVE load_rom_lines_stop_short(_, _, _)
\* a loop that a line of another length ends
load_rom_lines_stop_short(e, lines, idx) ==
    IF idx >= Len(lines) THEN [emu |-> e, returned |-> FALSE]
    ELSE LET line == Trim(lines[idx + 1])
         IN  IF ByteLen(line) = RomLineLen
             THEN LET p == from_str_radix(line)
                  IN  IF p >= 0
                      THEN load_rom_lines_stop_short(write_to_rom(e, idx % U16Mod, p), lines, idx + 1)
                      ELSE [emu |-> push_log(e, <<"Rom init. corrupted">>),
                            returned |-> TRUE]
             ELSE [emu |-> e, returned |-> FALSE]

RECURSIVE load_rom_lines(_, _, _)
\* the for loop over the ROM lines from 0-based index idx on:
\* [emu |-> the aggregate, returned |-> whether load_from_file returned early]
load_rom_lines(e, lines, idx) ==
    IF idx >= Len(lines) THEN [emu |-> e, returned |-> FALSE]
    ELSE LET line == Trim(lines[idx + 1])
         IN  IF ByteLen(line) = RomLineLen
             THEN LET p == from_str_radix(line)
                  IN  IF p >= 0
                      THEN load_rom_lines(write_to_rom(e, idx % U16Mod, p), lines, idx + 1)
                      ELSE [emu |-> push_log(e, <<"Rom init. corrupted">>),
                            returned |-> TRUE]
             ELSE load_rom_lines(e, lines, idx + 1)

RECURSIVE load_ram_lines(_, _, _)
\* the for loop over the lines of ram.bin
load_ram_lines(e, lines, idx) ==
    IF idx >= Len(lines) THEN [emu |-> e, returned |-> FALSE]
    ELSE LET line == Trim(lines[idx + 1])
         IN  IF ByteLen(line) = RamLineLen
             THEN LET p == from_str_radix(line)
                  IN  IF p >= 0
                      THEN load_ram_lines(write_to_ram(e, idx % U16Mod, p), lines, idx + 1)
                      ELSE [emu |-> push_log(e, <<"Ram init. corrupted">>),
                            returned |-> TRUE]
             ELSE load_ram_lines(e, lines, idx + 1)

\* the first match of load_from_file: the ROM source
load_rom_part(e, rom_file_name, rom_src) ==
    IF ~rom_src.readable
    THEN [emu |-> push_log(e, <<"Program not found">>), returned |-> FALSE]
    ELSE LET r == load_rom_lines(e, rom_src.lines, 0)
         IN  IF r.returned THEN r
             ELSE [emu |-> push_log(reset_last_mods(r.emu), <<"Loaded", rom_file_name>>),
                   returned |-> FALSE]

\* the second match of load_from_file: ram.bin
load_ram_part(e, ram_src) ==
    IF ~ram_src.readable THEN e
    ELSE LET r == load_ram_lines(e, ram_src.lines, 0)
         IN  IF r.returned THEN r.emu
             ELSE push_log(reset_last_mods(r.emu), <<"Loaded RAM preset">>)

load_from_file(e, rom_file_name, rom_src, ram_src) ==
    LET r == load_rom_part(e, rom_file_name, rom_src)
    IN  IF r.returned THEN r.emu ELSE load_ram_part(r.emu, ram_src)

(***************************************************************************)
(* The working directory: the program sources the load key walks through   *)
(* and the contents ram.bin may have.                                      *)
(***************************************************************************)
\* a word with the opcode in its top four bits and three 4-bit fields
Enc(op, x, y, z) == op * 4096 + x * 256 + y * 16 + z
\* a word with the opcode, one 4-bit field and one 8-bit field
Enc8(op, x, imm) == op * 4096 + x * 256 + imm

HALT == 0
ADD == 1
SUB == 2
AND == 3
NOR == 4
XOR == 5
RSH == 6
CMP == 7
LDI == 8
LDM == 9
STM == 10
LDP == 11
STP == 12
BRC == 13
BRP == 14
JMP == 15

\* the text line of a ROM word and of a RAM cell
Line16(w) == PadZero(Bin(w), 16)
Line8(v) == PadZero(Bin(v), 8)

\* operand values the ALU programs load into r0 and r1
Operands == <<0, 1, 127, 128, 255>>

\* LDI r0,a; LDI r1,b; ADD r2,r0,r1; AND r4,r0,r1; NOR r5,r0,r1; SUB r3,r0,r1
\* with register fields written as 8..15 where that names the same register
AluProgramA(a, b) ==
    <<Line16(Enc8(LDI, 0, a)), Line16(Enc8(LDI, 1, b)),
      Line16(Enc(ADD, 10, 8, 9)), Line16(Enc(AND, 4, 0, 1)),
      Line16(Enc(NOR, 13, 8, 1)), Line16(Enc(SUB, 3, 0, 9))>>

\* LDI r0,a; LDI r1,b; XOR r6,r0,r1; RSH r7,r0; CMP r0,r1; ADD r0,r0,r1
AluProgramB(a, b) ==
    <<Line16(Enc8(LDI, 8, a)), Line16(Enc8(LDI, 9, b)),
      Line16(Enc(XOR, 6, 0, 1)), Line16(Enc(RSH, 15, 8, 5)),
      Line16(Enc(CMP, 5, 0, 9)), Line16(Enc(ADD, 0, 0, 1))>>

AluCount == 2 * Len(Operands) * Len(Operands)

AluFile(i) ==
    LET n == Len(Operands)
        k == (i - 1) \div 2
        a == Operands[(k \div n) + 1]
        b == Operands[(k % n) + 1]
    IN  Readable(IF i % 2 = 1 THEN AluProgramA(a, b) ELSE AluProgramB(a, b))

\* LDI r0,5; LDI r1,3; ADD r0,r0,r1; HALT, with CR LF line ends
EndToEndFile ==
    Readable(<<Line16(Enc8(LDI, 0, 5)) \o <<"\r">>,
               Line16(Enc8(LDI, 1, 3)) \o <<"\r">>,
               Line16(Enc(ADD, 0, 0, 1)) \o <<"\r">>,
               Line16(Enc(HALT, 0, 0, 0)) \o <<"\r">>,
               <<>>>>)

\* JMP 63 on line 0, LDI r3,7 on line 63, LDI r2,9 on line 65, empty lines
\* between
WrapFile ==
    Readable([k \in 1..66 |->
        IF k = 1 THEN Line16(Enc(JMP, 0, 3, 15))
        ELSE IF k = 64 THEN Line16(Enc8(LDI, 3, 7))
        ELSE IF k = 66 THEN Line16(Enc8(LDI, 2, 9))
        ELSE <<>>])

\* LDI r0,200; ADD r1,r0,r0; STM r1,37; LDM r2,5; CMP r2,r0; HALT 0x0abc
MemoryFile ==
    Readable(<<Line16(Enc8(LDI, 0, 200)), Line16(Enc(ADD, 1, 0, 0)),
               Line16(Enc8(STM, 1, 37)), Line16(Enc8(LDM, 2, 5)),
               Line16(Enc(CMP, 5, 2, 0)), Line16(Enc(HALT, 10, 11, 12))>>)

\* LDI r4,35; XOR r5,r4,r4; STP [r4],r4; LDP r6,[r4]; LDM r7,1; HALT
PointerFile ==
    Readable(<<Line16(Enc8(LDI, 4, 35)), Line16(Enc(XOR, 5, 4, 4)),
               Line16(Enc(STP, 0, 4, 4)), Line16(Enc(LDP, 14, 12, 0)),
               Line16(Enc8(LDM, 7, 1)), Line16(Enc(HALT, 0, 0, 0))>>)

\* LDI r0,70; CMP r0,r0; BRC 12,68 (taken); HALT; BRP 13,r0 (not taken);
\* BRP 15,r0 (taken, to 6); JMP 70
BranchFile ==
    Readable(<<Line16(Enc8(LDI, 0, 70)), Line16(Enc(CMP, 0, 0, 0)),
               Line16(Enc8(BRC, 12, 68)), Line16(Enc(HALT, 0, 0, 0)),
               Line16(Enc(BRP, 13, 0, 0)), Line16(Enc(BRP, 15, 0, 8)),
               Line16(Enc(JMP, 0, 4, 6))>>)

\* a valid word, a 15-character line, a line that is no numeral, a valid word
CorruptFile ==
    Readable(<<Line16(Enc8(LDI, 1, 1)),
               <<"1", "0", "0", "0", "0", "0", "0", "0", "0", "0", "0", "0", "0", "0", "0">>,
               <<"1", "0", "0", "0", "0", "0", "0", "0", "0", "0", "x", "0", "0", "0", "0", "0">>,
               Line16(Enc8(LDI, 2, 2))>>)

\* BRC 13,5 (not taken); LDI r1,130; BRP 2,r1 (not taken); BRC 15,200 (taken,
\* to 8); on line 8 BRP 15,r1 with 0 in bits 8..11 (taken, to 2)
CondFile ==
    Readable([k \in 1..9 |->
        IF k = 1 THEN Line16(Enc8(BRC, 13, 5))
        ELSE IF k = 2 THEN Line16(Enc8(LDI, 1, 130))
        ELSE IF k = 3 THEN Line16(Enc(BRP, 2, 0, 9))
        ELSE IF k = 4 THEN Line16(Enc8(BRC, 15, 200))
        ELSE IF k = 9 THEN Line16(Enc(BRP, 15, 0, 9))
        ELSE <<>>])

\* LDI r0,1 as "1000000000000001"; a 15-character line; LDI r2,2 between
\* blanks; a 17-character line; LDI r4,4
SkipFile ==
    Readable(<<<<"1", "0", "0", "0", "0", "0", "0", "0", "0", "0", "0", "0", "0", "0", "0", "1">>,
               <<"1", "0", "0", "0", "0", "0", "0", "0", "0", "0", "0", "0", "0", "0", "0">>,
               <<" ", "\t">> \o Line16(Enc8(LDI, 2, 2)) \o <<" ", "\r">>,
               Line16(Enc8(LDI, 3, 3)) \o <<"0">>,
               Line16(Enc8(LDI, 4, 4))>>)

\* LDI r1,1; a 16-character line made of '+' and the 15 low bits of
\* ADD r2,r1,r1; LDI r3,3
SignFile ==
    Readable(<<Line16(Enc8(LDI, 1, 1)),
               <<"+">> \o PadZero(Bin(Enc(ADD, 2, 1, 1)), 15),
               Line16(Enc8(LDI, 3, 3))>>)

\* the directory listing: the .bin files other than ram.bin, in listing order
FixedFiles ==
    <<EndToEndFile, WrapFile, MemoryFile, PointerFile, BranchFile, CorruptFile,
      Unreadable, CondFile, SkipFile, SignFile>>

paths == [i \in 1..(Len(FixedFiles) + AluCount) |->
            IF i <= Len(FixedFiles) THEN FixedFiles[i]
            ELSE AluFile(i - Len(FixedFiles))]

\* ram.bin: absent, a preset (lines 0, 2 and 33 hold cells, the others are
\* skipped), or a preset whose second 8-character line is no numeral
RamPreset ==
    Readable([k \in 1..34 |->
        IF k = 1 THEN Line8(9)
        ELSE IF k = 2 THEN <<"1", "1">>
        ELSE IF k = 3 THEN Line8(255) \o <<" ">>
        ELSE IF k = 34 THEN Line8(77)
        ELSE <<>>])
RamCorrupt ==
    Readable(<<Line8(6), <<"0", "0", "0", "0", "0", "0", "2", "0">>, Line8(1)>>)
RamSources == {Unreadable, RamPreset, RamCorrupt}

(***************************************************************************)
(* main: the aggregate as constructed, and the event loop.                 *)
(***************************************************************************)
\* the EmulatorState literal of main
Constructed ==
    [rom |-> [i \in 0..(RomSize - 1) |-> 0],
     ram |-> [i \in 0..(RamSize - 1) |-> 0],
     reg |-> [i \in 0..(RegCount - 1) |-> 0],
     inp |-> [i \in 0..(RegCount - 1) |-> 0],
     out |-> [i \in 0..(RegCount - 1) |-> 0],
     flg |-> [i \in 0..(FlagCount - 1) |-> i = 15],
     pc |-> 0,
     mode |-> Setup,
     log_buffer |-> [i \in 0..(LogSize - 1) |-> EmptyLine],
     executed_instructions |-> 0,
     current_rom_read |-> None,
     current_ram_write |-> None,
     current_reg_write |-> None]

\* the state when the loop is entered: constructed, then program_reset()
Init ==
    /\ emulator = program_reset(Constructed)
    /\ path_idx = 0
    /\ status = "running"

\* emulator.cycle()? in the loop: a build with overflow checks panics where a
\* u16 operation overflows, any other build wraps
RunCycle(e) ==
    /\ e.executed_instructions < MaxInstr
    /\ \/ /\ emulator' = cycle(e)
          /\ status' = status
       \/ /\ cycle_overflows(e)
          /\ emulator' = cycle_panicked(e)
          /\ status' = "panicked"

\* the end of an iteration that cycles whatever the mode is
AfterKey_any_mode(e) ==
    RunCycle(e)

\* the end of an iteration that cycles unless the mode is ManualStep
AfterKey_unless_manual(e) ==
    IF e.mode # ManualStep THEN RunCycle(e)
    ELSE emulator' = e /\ status' = status

\* the end of every iteration: one cycle if the mode is Automatic
AfterKey(e) ==
    IF IsAutomatic(e.mode) THEN RunCycle(e)
    ELSE emulator' = e /\ status' = status

\* Setup, 'l': full_reset, then load the next listed program
KeyLoad ==
    /\ status = "running" /\ emulator.mode = Setup
    /\ \E ram_src \in RamSources :
         LET e1 == full_reset(emulator)
             e2 == IF path_idx < Len(paths)
                   THEN load_from_file(e1, path_idx, paths[path_idx + 1], ram_src)
                   ELSE e1
         IN  AfterKey(e2)
    /\ path_idx' = (IF path_idx + 1 >= Len(paths) THEN 0 ELSE path_idx + 1)

\* Setup, 'c'
KeyClearAll ==
    /\ status = "running" /\ emulator.mode = Setup
    /\ AfterKey(full_reset(emulator))
    /\ UNCHANGED path_idx

\* Setup, 'r': the mode becomes Automatic(0) and the same iteration cycles
KeyRun ==
    /\ status = "running" /\ emulator.mode = Setup
    /\ AfterKey([emulator EXCEPT !.mode = Automatic(0)])
    /\ UNCHANGED path_idx

\* Setup, 's'
KeyStep ==
    /\ status = "running" /\ emulator.mode = Setup
    /\ AfterKey([emulator EXCEPT !.mode = ManualStep])
    /\ UNCHANGED path_idx

\* Setup, 'q': main returns
KeyQuit ==
    /\ status = "running" /\ emulator.mode = Setup
    /\ status' = "quit"
    /\ UNCHANGED <<emulator, path_idx>>

\* ManualStep, 'c'
ManualClear ==
    /\ status = "running" /\ emulator.mode = ManualStep
    /\ AfterKey(program_reset(emulator))
    /\ UNCHANGED path_idx

\* ManualStep, 's': one cycle
ManualCycle ==
    /\ status = "running" /\ emulator.mode = ManualStep
    /\ RunCycle(emulator)
    /\ UNCHANGED path_idx

\* Automatic, 'c'
AutoClear ==
    /\ status = "running" /\ IsAutomatic(emulator.mode)
    /\ AfterKey(program_reset(emulator))
    /\ UNCHANGED path_idx

\* Automatic, 's': back to ManualStep, and no cycle in this iteration
AutoDemote ==
    /\ status = "running" /\ IsAutomatic(emulator.mode)
    /\ AfterKey([emulator EXCEPT !.mode = ManualStep])
    /\ UNCHANGED path_idx

\* Automatic, no key or a key without a binding: one cycle
AutoCycle ==
    /\ status = "running" /\ IsAutomatic(emulator.mode)
    /\ AfterKey(emulator)
    /\ UNCHANGED path_idx

\* Setup or ManualStep, no key or a key without a binding
Idle ==
    /\ status = "running" /\ ~IsAutomatic(emulator.mode)
    /\ AfterKey(emulator)
    /\ UNCHANGED path_idx

Next ==
    \/ KeyLoad
    \/ KeyClearAll
    \/ KeyRun
    \/ KeyStep
    \/ KeyQuit
    \/ ManualClear
    \/ ManualCycle
    \/ AutoClear
    \/ AutoDemote
    \/ AutoCycle
    \/ Idle

Spec == Init /\ [][Next]_vars

(***************************************************************************)
(* Vocabulary of the properties: the step just taken, read off the         *)
(* aggregate before and after it, and the fetched word decoded by          *)
(* arithmetic on its value.                                                *)
(***************************************************************************)
\* the step ran cycle (only cycle adds one to the counter; a reset zeroes it)
CycleStep == emulator'.executed_instructions = emulator.executed_instructions + 1
\* cycle ran to its end
Completed == status' = "running"
\* the word the cycle of this step fetches
Fetched == emulator.rom[emulator.pc % 64]
OpOf(w) == w \div 4096
F1(w) == (w \div 256) % 16
F2(w) == (w \div 16) % 16
F3(w) == w % 16
Imm8(w) == w % 256
Addr12(w) == w % 4096
\* the mode when cycle is entered: the run key sets Automatic(0) first
ModeAtCycle == IF emulator.mode = Setup THEN Automatic(0) ELSE emulator.mode
\* the step ran cycle on a word with one of these opcodes
Executes(ops) == CycleStep /\ OpOf(Fetched) \in ops
\* the newest trace line
LastLog == emulator.log_buffer[LogSize - 1]

EndToEndRom ==
    /\ emulator.rom[0] = 32773   \* 0x8005  LDI r0,5
    /\ emulator.rom[1] = 33027   \* 0x8103  LDI r1,3
    /\ emulator.rom[2] = 4097    \* 0x1001  ADD r0,r0,r1
    /\ emulator.rom[3] = 0       \* HALT

\* C1: with ROM words 0..3 = LDI r0,5; LDI r1,3; ADD r0,r0,r1; HALT, the
\* cycle that brings the count of cycles since the reset to four leaves
\* reg[0] = 8, reg[1] = 3, mode = Setup and executed_instructions = 4.
C1_EndToEnd ==
    [][(CycleStep /\ EndToEndRom /\ emulator'.executed_instructions = 4)
        => /\ emulator'.reg[0] = 8
           /\ emulator'.reg[1] = 3
           /\ emulator'.mode = Setup
           /\ emulator'.pc = 4
           /\ status' = "running"]_vars

C1_Witness ==
    /\ EndToEndRom
    /\ emulator.executed_instructions = 4
    /\ emulator.reg[0] = 8
    /\ emulator.mode = Setup
    /\ LastLog = <<"int">>
    /\ emulator.log_buffer[LogSize - 2] = <<"add", 0, 0, 1>>

\* C2: in every reachable state pc is in 0..63 (a 6-bit program counter).
C2_PcSixBit == emulator.pc \in 0..63

\* C3: flag 15 is true in every reachable state, and a BRC or BRP whose
\* condition field is 15 always branches.
C3_Flag15 ==
    /\ [](emulator.flg[15])
    /\ [][(Executes({13}) /\ F1(Fetched) = 15) => emulator'.pc = Imm8(Fetched) % 64]_vars
    /\ [][(Executes({14}) /\ F1(Fetched) = 15)
            => emulator'.pc = emulator.reg[F3(Fetched) % 8] % 64]_vars

\* a BRP with condition 15 has branched after a CMP re-asserted the flag
C3_Witness ==
    /\ LastLog = <<"ibr", 15, 0, 0>>
    /\ emulator.log_buffer[LogSize - 4] = <<"cmp", 0, 0>>
    /\ emulator.flg[15]
    /\ emulator.pc = 6

\* C4: every register and RAM cell is in 0..255 and every ROM word in
\* 0..65535.
C4_ValuesInWidth ==
    /\ \A i \in 0..7 : emulator.reg[i] \in 0..255
    /\ \A i \in 0..31 : emulator.ram[i] \in 0..255
    /\ \A i \in 0..63 : emulator.rom[i] \in 0..65535

\* NOR of 0 and 0 (its u16 value is 65535) and ADD of 255 and 255 were stored
C4_Witness ==
    \/ LastLog = <<"nor", 5, 0, 1>> /\ emulator.reg[5] = 255
                                   /\ emulator.reg[0] = 0 /\ emulator.reg[1] = 0
    \/ LastLog = <<"add", 2, 0, 1>> /\ emulator.reg[2] = 254
                                   /\ emulator.reg[0] = 255 /\ emulator.reg[1] = 255

\* the indices (u16) and the value probed writes are given: the value is
\* 261 mod 65536 and 5 mod 256
ProbeIndices == {0, 5, 7, 8, 13, 15, 16, 31, 32, 37, 63, 64, 65, 200, 255, 4095, 65535}
ProbeValues == {65797}

\* write_to_regs, write_to_ram and write_to_rom at index n with value v change
\* the cell n mod 8, n mod 32, n mod 64 of their store and nothing else there,
\* and leave the other two stores alone
WriteLands(n, v) ==
    LET r == write_to_regs(emulator, n, v)
        m == write_to_ram(emulator, n, v)
        o == write_to_rom(emulator, n, v)
    IN  /\ \A j \in 0..7 :
              r.reg[j] = IF j = n % 8 THEN v % 256 ELSE emulator.reg[j]
        /\ r.ram = emulator.ram /\ r.rom = emulator.rom
        /\ \A j \in 0..31 :
              m.ram[j] = IF j = n % 32 THEN v % 256 ELSE emulator.ram[j]
        /\ m.reg = emulator.reg /\ m.rom = emulator.rom
        /\ \A j \in 0..63 :
              o.rom[j] = IF j = n % 64 THEN v % 65536 ELSE emulator.rom[j]
        /\ o.reg = emulator.reg /\ o.ram = emulator.ram

\* the register a cycle on word w writes, if its opcode writes one
WritesReg(w) == OpOf(w) \in {1, 2, 3, 4, 5, 6, 8, 9, 11}

\* C5: a write at index n lands in cell n mod 8 (registers), n mod 64 (ROM),
\* n mod 32 (RAM) and in no other cell; a cycle whose register field is
\* 8..15 writes the register field mod 8, and a store writes the RAM cell
\* address mod 32.
C5_WritesWrap ==
    /\ [](\A n \in ProbeIndices : \A v \in ProbeValues : WriteLands(n, v))
    /\ [][(CycleStep /\ Completed /\ WritesReg(Fetched))
            => /\ \A j \in 0..7 : j # F1(Fetched) % 8
                                    => emulator'.reg[j] = emulator.reg[j]
               /\ emulator'.current_reg_write = Some(F1(Fetched) % 8)]_vars
    /\ [][Executes({10})
            => \A j \in 0..31 :
                 emulator'.ram[j] = IF j = Imm8(Fetched) % 32
                                    THEN emulator.reg[F1(Fetched) % 8]
                                    ELSE emulator.ram[j]]_vars
    /\ [][Executes({12})
            => \A j \in 0..31 :
                 emulator'.ram[j] = IF j = emulator.reg[F2(Fetched) % 8] % 32
                                    THEN emulator.reg[F3(Fetched) % 8]
                                    ELSE emulator.ram[j]]_vars

\* LDP with dest field 14 has written r6 through the pointer r4 = 35, which
\* names RAM cell 3, the cell the STP before it stored 35 to
C5_Witness ==
    /\ LastLog = <<"iml", 6, 4>>
    /\ emulator.current_reg_write = Some(6)
    /\ emulator.reg[6] = 35
    /\ emulator.ram[3] = 35
    /\ emulator.current_ram_write = Some(3)

\* C6: a cycle executing ADD, SUB, AND, NOR, XOR or RSH changes only
\* reg[dest mod 8] and flags 0..7: the other registers, RAM, ROM, the I/O
\* ports, flags 8..15 and the mode are unchanged.
C6_AluFrame ==
    [][Executes({1, 2, 3, 4, 5, 6})
        => /\ \A j \in 0..7 : j # F1(Fetched) % 8
                                => emulator'.reg[j] = emulator.reg[j]
           /\ emulator'.ram = emulator.ram
           /\ emulator'.rom = emulator.rom
           /\ emulator'.inp = emulator.inp
           /\ emulator'.out = emulator.out
           /\ \A i \in 8..15 : emulator'.flg[i] = emulator.flg[i]
           /\ emulator'.mode = ModeAtCycle]_vars

\* ADD r0,r0,r1 on 255 and 255 has run after a CMP set the compare flags and
\* with the RAM preset loaded
C6_Witness ==
    /\ LastLog = <<"add", 0, 0, 1>>
    /\ emulator.log_buffer[LogSize - 2] = <<"cmp", 0, 1>>
    /\ emulator.reg[0] = 254 /\ emulator.reg[1] = 255
    /\ emulator.reg[6] = 0 /\ emulator.reg[7] = 127
    /\ emulator.flg[12] /\ emulator.flg[11] /\ emulator.flg[2]
    /\ emulator.ram[0] = 9 /\ emulator.ram[1] = 77

\* C7: a cycle executing CMP changes only flags 8..15: registers, RAM, ROM,
\* the I/O ports, flags 0..7 and the mode are unchanged, and the flags it
\* sets compare reg[bits 8..11] with reg[bits 12..15], whatever the dest
\* field (bits 4..7) holds.
C7_CmpFrame ==
    [][Executes({7})
        => LET a == emulator.reg[F2(Fetched) % 8]
               b == emulator.reg[F3(Fetched) % 8]
           IN  /\ emulator'.reg = emulator.reg
               /\ emulator'.ram = emulator.ram
               /\ emulator'.rom = emulator.rom
               /\ emulator'.inp = emulator.inp
               /\ emulator'.out = emulator.out
               /\ \A i \in 0..7 : emulator'.flg[i] = emulator.flg[i]
               /\ emulator'.mode = ModeAtCycle
               /\ emulator'.flg[8] = (a > b)
               /\ emulator'.flg[10] = (a < b)
               /\ emulator'.flg[12] = (a = b)]_vars

\* CMP with dest field 5 has compared r0 = 127 with r1 = 128 after XOR and RSH
\* set registers and ALU flags
C7_Witness ==
    /\ LastLog = <<"cmp", 0, 1>>
    /\ emulator.reg[0] = 127 /\ emulator.reg[1] = 128
    /\ emulator.reg[6] = 255 /\ emulator.reg[7] = 63
    /\ emulator.flg[10] /\ ~emulator.flg[8] /\ ~emulator.flg[12]
    /\ emulator.flg[7] /\ emulator.flg[1]

\* the flags a reset leaves
ResetFlags == [i \in 0..15 |-> i = 15]
\* the step reset the machine
ResetStep == emulator'.executed_instructions = 0 /\ emulator'.flg = ResetFlags
Flags(lo, hi, f) == [i \in lo..hi |-> f[i]]

\* C8: a cycle executing HALT, LDI, LDM, STM, LDP, STP, BRC, BRP or JMP leaves
\* all 16 flags unchanged; flags 0..7 change only in a cycle executing ADD,
\* SUB, AND, NOR, XOR or RSH or in a reset, flags 8..15 only in a cycle
\* executing CMP or in a reset.
C8_FlagOwners ==
    /\ [][Executes({0, 8, 9, 10, 11, 12, 13, 14, 15})
            => emulator'.flg = emulator.flg]_vars
    /\ [][Flags(0, 7, emulator'.flg) # Flags(0, 7, emulator.flg)
            => Executes({1, 2, 3, 4, 5, 6}) \/ ResetStep]_vars
    /\ [][Flags(8, 15, emulator'.flg) # Flags(8, 15, emulator.flg)
            => Executes({7}) \/ ResetStep]_vars

\* HALT (low bits 0xabc) has run with the carry flag of ADD and the a<b flag
\* of CMP still set, after STM and LDM ran between
C8_Witness ==
    /\ LastLog = <<"int">>
    /\ emulator.log_buffer[LogSize - 2] = <<"cmp", 2, 0>>
    /\ emulator.log_buffer[LogSize - 3] = <<"dml", 2, 5>>
    /\ emulator.log_buffer[LogSize - 4] = <<"dms", 1, 5>>
    /\ emulator.flg[2] /\ emulator.flg[10] /\ emulator.flg[13]
    /\ emulator.mode = Setup

\* C9: ADD writes (a+b) mod 256 to reg[dest mod 8] and sets flag0 = (result
\* = 0), flag1 = ~flag0, flag2 = (a+b >= 256), flag3 = ~flag2, flag6 =
\* (result even), flag7 = ~flag6, from the operand values a = reg[a mod 8],
\* b = reg[b mod 8] as they are before the write.
C9_Add ==
    [][Executes({1})
        => LET a == emulator.reg[F2(Fetched) % 8]
               b == emulator.reg[F3(Fetched) % 8]
               res == (a + b) % 256
           IN  /\ Completed
               /\ emulator'.reg[F1(Fetched) % 8] = res
               /\ emulator'.flg[0] = (res = 0)
               /\ emulator'.flg[1] = ~(res = 0)
               /\ emulator'.flg[2] = (a + b >= 256)
               /\ emulator'.flg[3] = ~(a + b >= 256)
               /\ emulator'.flg[6] = (res % 2 = 0)
               /\ emulator'.flg[7] = ~(res % 2 = 0)
               /\ emulator'.pc = emulator.pc + 1]_vars

\* ADD r0,r0,r1 has added 255 in r0 and 1 in r1: result 0 with carry, and
\* dest is operand a
C9_Witness ==
    /\ LastLog = <<"add", 0, 0, 1>>
    /\ emulator.log_buffer[LogSize - 6] = <<"imm", 0, 255>>
    /\ emulator.reg[0] = 0 /\ emulator.reg[1] = 1
    /\ emulator.flg[0] /\ emulator.flg[2] /\ emulator.flg[6]
    /\ ~emulator.flg[1] /\ ~emulator.flg[3] /\ ~emulator.flg[7]

\* C10: SUB never traps: for all operand values a, b, also a < b, the cycle
\* completes, writes (a-b) mod 256 to reg[dest mod 8], advances pc and sets
\* flag0 = (a = b), flag2 = (a < b), flag3 = ~flag2, flag6 = (result even),
\* flag7 = ~flag6.
C10_SubNeverTraps ==
    [][Executes({2})
        => LET a == emulator.reg[F2(Fetched) % 8]
               b == emulator.reg[F3(Fetched) % 8]
               res == (a - b) % 256
           IN  /\ Completed
               /\ emulator'.reg[F1(Fetched) % 8] = res
               /\ emulator'.pc = emulator.pc + 1
               /\ emulator'.flg[0] = (a = b)
               /\ emulator'.flg[2] = (a < b)
               /\ emulator'.flg[3] = ~(a < b)
               /\ emulator'.flg[6] = (res % 2 = 0)
               /\ emulator'.flg[7] = ~(res % 2 = 0)]_vars


\* an 8-bit value read as a two's-complement number in -128..127
Signed(v) == IF v >= 128 THEN v - 256 ELSE v
\* a signed result that does not fit in -128..127
SignedOverflow(n) == n < -128 \/ n > 127
Bytes == 0..255

\* C11: for all 8-bit a and b the ADD flag rule and the SUB flag rule set
\* flag4 exactly when the sum, resp. the difference, of a and b read as
\* two's-complement values falls outside -128..127, and flag5 to its
\* negation; a cycle executing ADD or SUB that completes leaves these values
\* of flag4 and flag5.
C11_SignedOverflow ==
    /\ \A a \in Bytes : \A b \in Bytes :
          LET af == add_flags(emulator, a, b).flg
              sf == sub_flags(emulator, a, b).flg
          IN  /\ af[4] = SignedOverflow(Signed(a) + Signed(b))
              /\ af[5] = ~af[4]
              /\ sf[4] = SignedOverflow(Signed(a) - Signed(b))
              /\ sf[5] = ~sf[4]
    /\ [][(Executes({1}) /\ Completed)
            => LET a == emulator.reg[F2(Fetched) % 8]
                   b == emulator.reg[F3(Fetched) % 8]
               IN  /\ emulator'.flg[4] = SignedOverflow(Signed(a) + Signed(b))
                   /\ emulator'.flg[5] = ~emulator'.flg[4]]_vars
    /\ [][(Executes({2}) /\ Completed)
            => LET a == emulator.reg[F2(Fetched) % 8]
                   b == emulator.reg[F3(Fetched) % 8]
               IN  /\ emulator'.flg[4] = SignedOverflow(Signed(a) - Signed(b))
                   /\ emulator'.flg[5] = ~emulator'.flg[4]]_vars

\* SUB r3,r0,r1 has completed on 128 and 1 (-128 - 1 overflows) after ADD
\* r2,r0,r1 gave 129
C11_Witness ==
    /\ LastLog = <<"sub", 3, 0, 1>>
    /\ emulator.log_buffer[LogSize - 4] = <<"add", 2, 0, 1>>
    /\ emulator.reg[0] = 128 /\ emulator.reg[1] = 1
    /\ emulator.reg[2] = 129 /\ emulator.reg[3] = 127
    /\ emulator.flg[4] /\ ~emulator.flg[5] /\ ~emulator.flg[2]
    /\ status = "running"

\* bit i of an 8-bit value, and the value of eight bits
BitAt(v, i) == (v \div (2 ^ i)) % 2
FromBits(f) ==
    f[0] + 2 * f[1] + 4 * f[2] + 8 * f[3] + 16 * f[4] + 32 * f[5] + 64 * f[6] + 128 * f[7]
And8(a, b) == FromBits([i \in 0..7 |-> BitAt(a, i) * BitAt(b, i)])
Or8(a, b) == FromBits([i \in 0..7 |-> IF BitAt(a, i) + BitAt(b, i) > 0 THEN 1 ELSE 0])
Xor8(a, b) == FromBits([i \in 0..7 |-> (BitAt(a, i) + BitAt(b, i)) % 2])

\* what a logic or shift cycle leaves for the result res
LogicPost(res) ==
    /\ Completed
    /\ emulator'.reg[F1(Fetched) % 8] = res
    /\ emulator'.flg[0] = (res = 0)
    /\ emulator'.flg[1] = ~(res = 0)
    /\ emulator'.flg[6] = (res % 2 = 0)
    /\ emulator'.flg[7] = ~(res % 2 = 0)
    /\ \A i \in 2..5 : emulator'.flg[i] = FALSE

\* C12: with a = reg[a mod 8] and b = reg[b mod 8], a cycle executing AND,
\* NOR, XOR, RSH writes a AND b, 255 - (a OR b), a XOR b, floor(a/2) to
\* reg[dest mod 8], sets flag0 = (result = 0), flag1 = ~flag0, flag6 =
\* (result even), flag7 = ~flag6, and leaves flags 2, 3, 4 and 5 all false.
C12_Logic ==
    /\ [][Executes({3})
            => LogicPost(And8(emulator.reg[F2(Fetched) % 8],
                              emulator.reg[F3(Fetched) % 8]))]_vars
    /\ [][Executes({4})
            => LogicPost(255 - Or8(emulator.reg[F2(Fetched) % 8],
                                   emulator.reg[F3(Fetched) % 8]))]_vars
    /\ [][Executes({5})
            => LogicPost(Xor8(emulator.reg[F2(Fetched) % 8],
                              emulator.reg[F3(Fetched) % 8]))]_vars
    /\ [][Executes({6})
            => LogicPost(emulator.reg[F2(Fetched) % 8] \div 2)]_vars

\* AND r4,r0,r1 on 255 and 255 has cleared the carry flag and flag 5 that the
\* ADD before it set
C12_Witness ==
    /\ LastLog = <<"and", 4, 0, 1>>
    /\ emulator.log_buffer[LogSize - 2] = <<"add", 2, 0, 1>>
    /\ emulator.reg[0] = 255 /\ emulator.reg[1] = 255
    /\ emulator.reg[2] = 254 /\ emulator.reg[4] = 255
    /\ ~emulator.flg[2] /\ ~emulator.flg[3] /\ ~emulator.flg[4] /\ ~emulator.flg[5]
    /\ emulator.flg[1] /\ emulator.flg[7]

\* C13: a cycle executing CMP with a = reg[bits 8..11 mod 8] and b =
\* reg[bits 12..15 mod 8] leaves flag8 = a>b, flag9 = a<=b, flag10 = a<b,
\* flag11 = a>=b, flag12 = a=b, flag13 = a#b, flag14 = false, flag15 = true,
\* so exactly one of flags 8, 10 and 12 is true.
C13_Cmp ==
    [][Executes({7})
        => LET a == emulator.reg[F2(Fetched) % 8]
               b == emulator.reg[F3(Fetched) % 8]
               f == emulator'.flg
           IN  /\ Completed
               /\ f[8] = (a > b)
               /\ f[9] = (a <= b)
               /\ f[10] = (a < b)
               /\ f[11] = (a >= b)
               /\ f[12] = (a = b)
               /\ f[13] = (a # b)
               /\ f[14] = FALSE
               /\ f[15] = TRUE
               /\ Cardinality({i \in {8, 10, 12} : f[i]}) = 1]_vars

\* CMP r0,r0 has compared 70 with itself
C13_Witness ==
    /\ LastLog = <<"cmp", 0, 0>>
    /\ emulator.log_buffer[LogSize - 2] = <<"imm", 0, 70>>
    /\ emulator.reg[0] = 70
    /\ emulator.flg[12] /\ emulator.flg[9] /\ emulator.flg[11]
    /\ ~emulator.flg[8] /\ ~emulator.flg[10] /\ ~emulator.flg[13]
    /\ ~emulator.flg[14] /\ emulator.flg[15]

\* what a cycle leaves alone when it writes no store and no flag
StoresKept ==
    /\ emulator'.reg = emulator.reg
    /\ emulator'.ram = emulator.ram
    /\ emulator'.rom = emulator.rom
    /\ emulator'.inp = emulator.inp
    /\ emulator'.out = emulator.out
    /\ emulator'.flg = emulator.flg

\* C14: a cycle that fetches a word with opcode 0000, whatever its low 12
\* bits, sets the mode to Setup, advances pc by one, increments
\* executed_instructions by one and leaves registers, RAM, ROM and all flags
\* unchanged.
C14_Halt ==
    [][Executes({0})
        => /\ Completed
           /\ emulator'.mode = Setup
           /\ emulator'.pc = emulator.pc + 1
           /\ emulator'.executed_instructions = emulator.executed_instructions + 1
           /\ StoresKept]_vars

\* HALT with low bits 0xabc has run as sixth cycle with registers, RAM and
\* flags set by the cycles before it
C14_Witness ==
    /\ LastLog = <<"int">>
    /\ emulator.rom[5] = 2748
    /\ emulator.mode = Setup
    /\ emulator.pc = 6
    /\ emulator.executed_instructions = 6
    /\ emulator.reg[0] = 200 /\ emulator.reg[1] = 144 /\ emulator.reg[2] = 144
    /\ emulator.ram[5] = 144
    /\ emulator.flg[2] /\ emulator.flg[10]

\* C15: a cycle executing JMP sets pc to addr mod 64 for its 12-bit addr,
\* whatever the flags are, and changes no register, RAM cell or flag.
C15_Jmp ==
    [][Executes({15})
        => /\ Completed
           /\ emulator'.pc = Addr12(Fetched) % 64
           /\ StoresKept]_vars

\* JMP 70 has set pc to 6, with compare flags set
C15_Witness ==
    /\ LastLog = <<"jmp", 6>>
    /\ emulator.rom[6] = 61510
    /\ emulator.pc = 6
    /\ emulator.reg[0] = 70
    /\ emulator.flg[12] /\ ~emulator.flg[13]

\* C16: a cycle executing BRC with condition field c and 8-bit address field
\* addr leaves pc = pc + 1 if flag[c] is false and pc = addr mod 64 if it is
\* true; a cycle executing BRP does the same with target reg[ptr mod 8] mod
\* 64, ptr being bits 12..15; both leave registers, RAM and flags unchanged.
C16_Branch ==
    /\ [][Executes({13})
            => /\ Completed
               /\ emulator'.pc = IF emulator.flg[F1(Fetched)]
                                  THEN Imm8(Fetched) % 64
                                  ELSE emulator.pc + 1
               /\ StoresKept]_vars
    /\ [][Executes({14})
            => /\ Completed
               /\ emulator'.pc = IF emulator.flg[F1(Fetched)]
                                  THEN emulator.reg[F3(Fetched) % 8] % 64
                                  ELSE emulator.pc + 1
               /\ StoresKept]_vars

\* BRC 13,5 and BRP 2,r1 fell through, BRC 15,200 went to 8 and BRP 15,r1
\* went to 130 mod 64
C16_Witness ==
    /\ LastLog = <<"ibr", 15, 0, 1>>
    /\ emulator.log_buffer[LogSize - 2] = <<"brc", 15, 8>>
    /\ emulator.log_buffer[LogSize - 3] = <<"ibr", 2, 0, 1>>
    /\ emulator.log_buffer[LogSize - 5] = <<"brc", 13, 5>>
    /\ emulator.reg[1] = 130 /\ emulator.reg[0] = 0
    /\ emulator.pc = 2

\* the first words of the trace lines the arms of cycle push
TraceWords ==
    {"int", "add", "sub", "and", "nor", "xor", "rsh", "cmp", "imm", "dml",
     "dms", "iml", "ims", "brc", "ibr", "jmp", "unknown opcode"}
IsTrace(entry) == entry # EmptyLine /\ entry[1] \in TraceWords
\* the number of trace lines the log holds
TraceLines == Cardinality({i \in 0..(LogSize - 1) : IsTrace(emulator.log_buffer[i])})
\* the loop iterations that call cycle
CycleIteration == ManualCycle \/ AutoCycle \/ KeyRun

\* C17: every cycle that runs to its end increments executed_instructions by
\* exactly one and pushes exactly one entry onto the trace log; the counter
\* changes in no other step but a reset, which zeroes it; so the counter is
\* the number of cycles since the last reset, which the log shows as long
\* as it holds them all.
C17_CountAndTrace ==
    /\ [][CycleIteration
            => emulator'.executed_instructions = emulator.executed_instructions + 1]_vars
    /\ [][(CycleIteration /\ Completed)
            => /\ \A i \in 0..(LogSize - 2) :
                     emulator'.log_buffer[i] = emulator.log_buffer[i + 1]
               /\ IsTrace(emulator'.log_buffer[LogSize - 1])]_vars
    /\ [][emulator'.executed_instructions # emulator.executed_instructions
            => \/ CycleIteration
               \/ emulator'.executed_instructions = 0]_vars
    /\ [](status = "running" =>
            TraceLines = IF emulator.executed_instructions < LogSize
                         THEN emulator.executed_instructions ELSE LogSize)

\* six cycles of six different opcodes have run since the load
C17_Witness ==
    /\ emulator.executed_instructions = 6
    /\ TraceLines = 6
    /\ emulator.log_buffer[0] = <<"Loaded RAM preset">>
    /\ emulator.log_buffer[1] = <<"imm", 4, 35>>
    /\ emulator.log_buffer[2] = <<"xor", 5, 4, 4>>
    /\ emulator.log_buffer[3] = <<"ims", 4, 4>>
    /\ emulator.log_buffer[4] = <<"iml", 6, 4>>
    /\ emulator.log_buffer[5] = <<"dml", 7, 1>>
    /\ emulator.log_buffer[6] = <<"int">>

\* the fields of the aggregate other than the log
FieldsButLog == DOMAIN Constructed \ {"log_buffer"}

\* C18: from every reachable state, program_reset called twice yields the
\* same ROM, RAM, registers, I/O, flags, pc, mode, counter and last-touched
\* indices as program_reset called once; the logs differ only in the logged
\* count, which is the counter for the first call and 0 for the second.
C18_ResetIdempotent ==
    LET once == program_reset(emulator)
        twice == program_reset(once)
    IN  /\ \A f \in FieldsButLog : twice[f] = once[f]
        /\ once.log_buffer[LogSize - 1] = <<"Ex. instr:", emulator.executed_instructions>>
        /\ twice.log_buffer = [once.log_buffer EXCEPT ![LogSize - 1] = <<"Ex. instr:", 0>>]

\* the clear key has reset the machine after three cycles of the loaded
\* program, whose words are still in ROM
C18_Witness ==
    /\ LastLog = <<"Ex. instr:", 3>>
    /\ EndToEndRom
    /\ emulator.executed_instructions = 0
    /\ emulator.mode = Setup
    /\ emulator.reg[0] = 0

ZeroRom == [i \in 0..63 |-> 0]
\* the values program_reset leaves in aggregate p
ResetPost(p) ==
    /\ p.ram = [i \in 0..31 |-> 0]
    /\ p.reg = [i \in 0..7 |-> 0]
    /\ p.inp = [i \in 0..7 |-> 0]
    /\ p.out = [i \in 0..7 |-> 0]
    /\ p.flg = ResetFlags
    /\ p.pc = 0
    /\ p.mode = Setup
    /\ p.executed_instructions = 0

\* C19: full_reset sets every ROM word to 0 and has the full effect of
\* program_reset; program_reset leaves every ROM word unchanged and zeroes
\* RAM, registers, I/O ports and flags (flag 15 true), sets pc = 0, mode =
\* Setup and executed_instructions = 0; so do the clear-all key and the clear
\* key of the loop.
C19_Resets ==
    /\ [](LET p == program_reset(emulator)
              f == full_reset(emulator)
          IN  /\ p.rom = emulator.rom
              /\ ResetPost(p)
              /\ f.rom = ZeroRom
              /\ \A k \in DOMAIN Constructed \ {"rom"} : f[k] = p[k])
    /\ [][KeyClearAll => emulator'.rom = ZeroRom /\ ResetPost(emulator')]_vars
    /\ [][(ManualClear \/ AutoClear)
            => emulator'.rom = emulator.rom /\ ResetPost(emulator')]_vars

\* the clear-all key has zeroed the ROM of a loaded program that ran four
\* cycles
C19_Witness ==
    /\ LastLog = <<"Ex. instr:", 4>>
    /\ emulator.log_buffer[LogSize - 2] = EmptyLine
    /\ emulator.rom = ZeroRom
    /\ path_idx = 1
    /\ ResetPost(emulator)

\* C20: the step key in Setup moves to ManualStep, the step key in Automatic
\* moves to ManualStep, and in both iterations nothing but the mode changes
\* (no cycle runs); the run key in Setup changes only the mode, to
\* Automatic(0), before the cycle of its iteration.
C20_ModeCommands ==
    /\ [][KeyStep => emulator' = [emulator EXCEPT !.mode = ManualStep]
                      /\ status' = "running"]_vars
    /\ [][AutoDemote => emulator' = [emulator EXCEPT !.mode = ManualStep]
                         /\ status' = "running"]_vars
    /\ [][(emulator'.mode = ManualStep /\ emulator.mode # ManualStep)
            => emulator' = [emulator EXCEPT !.mode = ManualStep]]_vars
    /\ [][(KeyRun /\ Completed)
            => /\ emulator' = cycle([emulator EXCEPT !.mode = Automatic(0)])
               /\ emulator'.mode = IF OpOf(Fetched) = 0 THEN Setup ELSE Automatic(0)]_vars

\* the step key has moved a freshly loaded machine to ManualStep, and no
\* cycle ran in that iteration
C20_Witness ==
    /\ emulator.mode = ManualStep
    /\ EndToEndRom
    /\ emulator.executed_instructions = 0
    /\ emulator.pc = 0
    /\ LastLog = <<"Loaded RAM preset">>
    /\ emulator.ram[0] = 9
    /\ emulator.current_rom_read = None

\* C21: a step that takes the mode from ManualStep or Automatic to Setup is a
\* cycle that fetched a word with opcode 0000 or a reset (the clear key); a
\* cycle on any other opcode leaves the mode it was entered with.
C21_ToSetup ==
    /\ [][(emulator.mode # Setup /\ emulator'.mode = Setup)
            => \/ Executes({0})
               \/ (ManualClear \/ AutoClear) /\ emulator' = program_reset(emulator)]_vars
    /\ [][Executes(1..15) => emulator'.mode = ModeAtCycle]_vars

\* the HALT in the zeroed word 1 has taken the machine to Setup after LDI r1,1
C21_Witness ==
    /\ LastLog = <<"int">>
    /\ emulator.log_buffer[LogSize - 2] = <<"imm", 1, 1>>
    /\ emulator.mode = Setup
    /\ emulator.executed_instructions = 2
    /\ emulator.pc = 2
    /\ emulator.reg[1] = 1

\* the mode cycle is entered with, for the aggregate e the iteration hands it
EnteredFrom(e) ==
    /\ e.mode # Setup
    /\ emulator' \in {cycle(e), cycle_panicked(e)}

\* C22: cycle runs only with the mode ManualStep or Automatic: an iteration
\* with the step key in ManualStep runs it once, an iteration that ends in
\* Automatic mode (no key, an unbound key, or the run key) runs it once, and
\* no other iteration runs it; in particular none whose handler left the
\* mode Setup, such as the clear key in Automatic.
C22_CyclePrecondition ==
    /\ [][CycleStep
            => \/ ManualCycle /\ emulator.mode = ManualStep /\ EnteredFrom(emulator)
               \/ AutoCycle /\ IsAutomatic(emulator.mode) /\ EnteredFrom(emulator)
               \/ KeyRun /\ EnteredFrom([emulator EXCEPT !.mode = Automatic(0)])]_vars
    /\ [][(ManualCycle \/ AutoCycle \/ KeyRun) => CycleStep]_vars
    /\ [][(KeyLoad \/ KeyClearAll \/ KeyStep \/ ManualClear \/ AutoClear
            \/ AutoDemote \/ Idle)
            => /\ ~CycleStep
               /\ emulator'.current_rom_read \in {None, emulator.current_rom_read}]_vars
    /\ [][AutoClear => emulator' = program_reset(emulator)]_vars

\* the clear key has reset a run of the pointer program after two cycles, and
\* the iteration ran no cycle on the reset machine
C22_Witness ==
    /\ LastLog = <<"Ex. instr:", 2>>
    /\ emulator.rom[0] = 33827
    /\ emulator.rom[2] = 49220
    /\ emulator.mode = Setup
    /\ emulator.pc = 0
    /\ emulator.executed_instructions = 0
    /\ emulator.current_rom_read = None

\* the key the help line calls clear, in each of the three modes
ClearKey == KeyClearAll \/ ManualClear \/ AutoClear

\* C23: in every mode the clear key performs program_reset: its iteration
\* leaves exactly program_reset's result, that is mode Setup with every ROM
\* word as before.
C23_ClearEverywhere ==
    [][ClearKey => /\ emulator' = program_reset(emulator)
                   /\ emulator'.mode = Setup
                   /\ emulator'.rom = emulator.rom]_vars

(***************************************************************************)
(* What a program source says, read off its text: the lines as the claims  *)
(* speak of them, counted from 0.                                          *)
(***************************************************************************)
\* line k of a source, trimmed
TrimmedLine(src, k) == Trim(src.lines[k + 1])
LineNumbers(src) == 0..(Len(src.lines) - 1)
\* a line of n characters
HasLength(src, k, n) == Len(TrimmedLine(src, k)) = n
\* a binary numeral: nothing but the digits 0 and 1
IsNumeral(l) == \A i \in 1..Len(l) : l[i] \in {"0", "1"}
RECURSIVE Pow2(_)
Pow2(n) == IF n = 0 THEN 1 ELSE 2 * Pow2(n - 1)
RECURSIVE WeightedSum(_, _)
\* the sum of 2^(Len(l)-i) over the positions i <= n that hold a 1
WeightedSum(l, n) ==
    IF n = 0 THEN 0
    ELSE (IF l[n] = "1" THEN Pow2(Len(l) - n) ELSE 0) + WeightedSum(l, n - 1)
\* the big-endian value of a binary numeral
NumeralValue(l) == WeightedSum(l, Len(l))
\* the malformed lines of width n, and the number of the first one (the
\* number of lines if there is none)
Malformed(src, n) ==
    {k \in LineNumbers(src) : HasLength(src, k, n) /\ ~IsNumeral(TrimmedLine(src, k))}
FirstMalformed(src, n) ==
    IF Malformed(src, n) = {} THEN Len(src.lines)
    ELSE CHOOSE k \in Malformed(src, n) : \A j \in Malformed(src, n) : k <= j
\* the source the load key is about to read
NextSource == paths[path_idx + 1]
\* the load key's iteration, told first by the listing index, which no other
\* key advances
LoadKey == path_idx' # path_idx /\ KeyLoad
\* some entry of the log is x
Logged(e, x) == \E i \in 0..(LogSize - 1) : e.log_buffer[i] = x

Writers(src, n, i) ==
    {j \in LineNumbers(src) :
        /\ j < n /\ j % 64 = i
        /\ HasLength(src, j, RomLineLen) /\ IsNumeral(TrimmedLine(src, j))}
ExpectedWord(src, n, i) ==
    IF Writers(src, n, i) = {} THEN 0
    ELSE LET last == CHOOSE j \in Writers(src, n, i) :
                        \A h \in Writers(src, n, i) : h <= j
         IN  NumeralValue(TrimmedLine(src, last))

\* C25: when the ROM source has a 16-character line that is no binary
\* numeral, the load key logs the ROM corruption entry and no successful
\* load, and the ROM holds the words of the valid lines before the first such
\* line and no word of any later line.
C25_CorruptAborts ==
    [][(LoadKey /\ NextSource.readable /\ Malformed(NextSource, RomLineLen) # {})
        => LET src == NextSource
               k == FirstMalformed(src, RomLineLen)
           IN  /\ Logged(emulator', <<"Rom init. corrupted">>)
               /\ ~Logged(emulator', <<"Loaded", path_idx>>)
               /\ \A i \in 0..63 : emulator'.rom[i] = ExpectedWord(src, k, i)]_vars

\* C26: whatever the ROM source turns out to be (loaded, missing, or aborted
\* on a malformed line), the load key writes every valid 8-character binary
\* line k of an existing RAM source to RAM[k mod 32].  Stated of the load
\* command the loop is about to accept: its result for the next listed
\* program and each content of ram.bin.
C26_RamIndependent ==
    (status = "running" /\ emulator.mode = Setup)
        => \A ram_src \in {r \in RamSources : r.readable} :
             LET after == load_from_file(full_reset(emulator), path_idx,
                                         NextSource, ram_src)
             IN  \A k \in LineNumbers(ram_src) :
                    ( /\ k < FirstMalformed(ram_src, RamLineLen)
                      /\ HasLength(ram_src, k, RamLineLen)
                      /\ IsNumeral(TrimmedLine(ram_src, k))
                      /\ \A j \in LineNumbers(ram_src) :
                            (j > k /\ j % 32 = k % 32) => ~HasLength(ram_src, j, RamLineLen) )
                    => after.ram[k % 32] = NumeralValue(TrimmedLine(ram_src, k))

\* C27: the load key on a missing ROM source logs "Program not found",
\* leaves every ROM word as it was before the key, and leaves the machine
\* running in Setup.
C27_MissingKeepsRom ==
    [][(LoadKey /\ ~NextSource.readable)
        => /\ Logged(emulator', <<"Program not found">>)
           /\ emulator'.rom = emulator.rom
           /\ emulator'.mode = Setup
           /\ status' = "running"]_vars

\* nine distinct entries to push
ProbeEntries == [n \in 1..9 |-> <<"probe", n>>]
RECURSIVE PushAll(_, _)
\* the aggregate after push_log of each entry of seq in turn
PushAll(e, seq) ==
    IF seq = <<>> THEN e ELSE PushAll(push_log(e, Head(seq)), Tail(seq))
\* a 7-entry log that holds the last entries of the sequence all, newest last,
\* and is empty before them
LogOf(all) ==
    [i \in 0..(LogSize - 1) |->
        IF Len(all) - LogSize + i + 1 >= 1 THEN all[Len(all) - LogSize + i + 1]
        ELSE EmptyLine]
\* the entry a reset pushes
CountEntry == <<"Ex. instr:", emulator.executed_instructions>>
\* what load_from_file can push after the load key's reset
LoaderEntries ==
    {<<<<"Loaded", path_idx>>>>, <<<<"Program not found">>>>,
     <<<<"Rom init. corrupted">>>>,
     <<<<"Loaded", path_idx>>, <<"Loaded RAM preset">>>>,
     <<<<"Loaded", path_idx>>, <<"Ram init. corrupted">>>>,
     <<<<"Program not found">>, <<"Loaded RAM preset">>>>,
     <<<<"Program not found">>, <<"Ram init. corrupted">>>>}
\* C28: the log is a 7-entry FIFO, newest last.  From any reachable
\* aggregate a reset followed by k pushes (k = 0..9) leaves the count entry
\* and the k entries, cut to the last 7, in push order; in the loop a
\* completed cycle shifts entries 1..6 to 0..5 and stores its line at 6, a
\* reset leaves six empty entries and the count, the load key leaves the
\* count followed by the loader's one or two entries, no other step changes
\* the log, and the empty entries are always the oldest.
C28_Fifo ==
    /\ [](\A k \in 0..Len(ProbeEntries) :
            PushAll(program_reset(emulator), SubSeq(ProbeEntries, 1, k)).log_buffer
                = LogOf(<<CountEntry>> \o SubSeq(ProbeEntries, 1, k)))
    /\ [][(CycleIteration /\ Completed)
            => /\ \A i \in 0..(LogSize - 2) :
                     emulator'.log_buffer[i] = emulator.log_buffer[i + 1]
               /\ IsTrace(emulator'.log_buffer[LogSize - 1])]_vars
    /\ [][ClearKey => emulator'.log_buffer = LogOf(<<CountEntry>>)]_vars
    /\ [][LoadKey => \E tail \in LoaderEntries :
                        emulator'.log_buffer = LogOf(<<CountEntry>> \o tail)]_vars
    /\ [][emulator'.log_buffer # emulator.log_buffer
            => LoadKey \/ ClearKey \/ CycleIteration]_vars
    /\ [](\A i \in 0..(LogSize - 2) :
            emulator.log_buffer[i] # EmptyLine => emulator.log_buffer[i + 1] # EmptyLine)

\* nine pushes since the reset (the count, two loader entries, six cycles of
\* the branch program): the count and the Loaded entry have been dropped and
\* the RAM entry is the oldest of the seven
C28_Witness ==
    /\ emulator.log_buffer[0] = <<"Loaded RAM preset">>
    /\ \A i \in 1..(LogSize - 1) : IsTrace(emulator.log_buffer[i])
    /\ emulator.executed_instructions = 6
    /\ emulator.rom[6] = 61510
    /\ emulator.pc = 6

\* C29: only the load key and the clear-all key change a ROM word, both in
\* Setup; no cycle, completed or not, changes one, and no step taken in
\* ManualStep or Automatic does.
C29_RomFrame ==
    /\ [][emulator'.rom # emulator.rom
            => emulator.mode = Setup /\ (LoadKey \/ KeyClearAll)]_vars
    /\ [][CycleStep => emulator'.rom = emulator.rom]_vars
    /\ [][emulator.mode # Setup => emulator'.rom = emulator.rom]_vars

\* the pointer program has stored r4 through r4 (STP) in ManualStep or
\* Automatic: RAM cell 3 holds 35 and the ROM still holds the program
C29_Witness ==
    /\ LastLog = <<"ims", 4, 4>>
    /\ emulator.ram[3] = 35
    /\ emulator.mode # Setup
    /\ emulator.rom[0] = 33827
    /\ emulator.rom[2] = 49220
    /\ emulator.executed_instructions = 3

(***************************************************************************)
(* A long run: the directory holds one branch-free program that fills the  *)
(* ROM, it is loaded, and the run key starts it.  Nothing interrupts the   *)
(* Automatic mode, so the program counter goes through every u16 value.    *)
(***************************************************************************)
\* the number of cycles followed
LongCycles == 65700

\* the ROM that program leaves: LDI r(k mod 8),k in word k, for k = 0..63
LongRom == [k \in 0..(RomSize - 1) |-> Enc8(LDI, k % 8, k)]

\* the state after the load key on that directory, ram.bin absent: the reset,
\* the 64 words written, the Loaded entry
InitLong ==
    /\ emulator = [push_log(full_reset(program_reset(Constructed)), <<"Loaded", 0>>)
                      EXCEPT !.rom = LongRom]
    /\ path_idx = 0
    /\ status = "running"

\* emulator.cycle()? in the loop, followed for LongCycles cycles
RunCycleLong(e) ==
    /\ e.executed_instructions < LongCycles
    /\ \/ /\ emulator' = cycle(e)
          /\ status' = status
       \/ /\ cycle_overflows(e)
          /\ emulator' = cycle_panicked(e)
          /\ status' = "panicked"

\* Setup, 'r': the mode becomes Automatic(0) and the iteration ends with a cycle
LongRun ==
    /\ status = "running" /\ emulator.mode = Setup
    /\ RunCycleLong([emulator EXCEPT !.mode = Automatic(0)])
    /\ UNCHANGED path_idx

\* Automatic, no bound key: the iteration ends with a cycle
LongCycle ==
    /\ status = "running" /\ IsAutomatic(emulator.mode)
    /\ RunCycleLong(emulator)
    /\ UNCHANGED path_idx

NextLong ==
    \/ LongRun
    \/ LongCycle

SpecLong == InitLong /\ [][NextLong]_vars

\* C30: the fetch index is always in 0..63 and is pc mod 64; in a
\* branch-free program the cycle that executes word 63 is followed by a cycle
\* on word 0, and the word executed is the same every 64 cycles.
C30_FetchWraps ==
    /\ [](\/ emulator.current_rom_read = None
          \/ \E i \in 0..(RomSize - 1) : emulator.current_rom_read = <<i>>)
    /\ [][CycleStep => emulator'.current_rom_read = <<emulator.pc % 64>>]_vars
    /\ [][(CycleStep /\ emulator.pc % 64 = 63)
            => status' = "running" /\ emulator'.pc % 64 = 0]_vars
    /\ [](status = "running"
            => emulator.pc % 64 = emulator.executed_instructions % 64)

\* every cell of store but cell i is as before the step
OnlyCell(store, i) ==
    \A k \in DOMAIN emulator[store] : k # i => emulator'[store][k] = emulator[store][k]

\* C31: STM and STP write the source register to the addressed RAM cell,
\* change no other cell and no register; LDM and LDP write the addressed
\* cell to the destination register, change no other register and no RAM
\* cell; a load that directly follows a store (the store's trace line is the
\* newest log entry) and addresses the same cell, by an address congruent
\* mod 32 or through the same pointer register, leaves in its destination
\* the value the store's source register held.
C31_RoundTrip ==
    /\ [][Executes({10})
            => /\ emulator'.ram[Imm8(Fetched) % 32] = emulator.reg[F1(Fetched) % 8]
               /\ OnlyCell("ram", Imm8(Fetched) % 32)
               /\ emulator'.reg = emulator.reg]_vars
    /\ [][Executes({12})
            => LET cell == emulator.reg[F2(Fetched) % 8] % 32
               IN  /\ emulator'.ram[cell] = emulator.reg[F3(Fetched) % 8]
                   /\ OnlyCell("ram", cell)
                   /\ emulator'.reg = emulator.reg]_vars
    /\ [][Executes({9})
            => /\ emulator'.reg[F1(Fetched) % 8] = emulator.ram[Imm8(Fetched) % 32]
               /\ OnlyCell("reg", F1(Fetched) % 8)
               /\ emulator'.ram = emulator.ram]_vars
    /\ [][Executes({11})
            => /\ emulator'.reg[F1(Fetched) % 8]
                     = emulator.ram[emulator.reg[F2(Fetched) % 8] % 32]
               /\ OnlyCell("reg", F1(Fetched) % 8)
               /\ emulator'.ram = emulator.ram]_vars
    /\ [][(Executes({9}) /\ LastLog[1] = "dms" /\ LastLog[3] = Imm8(Fetched) % 32)
            => emulator'.reg[F1(Fetched) % 8] = emulator.reg[LastLog[2]]]_vars
    /\ [][(Executes({11}) /\ LastLog[1] = "ims" /\ LastLog[2] = F2(Fetched) % 8)
            => emulator'.reg[F1(Fetched) % 8] = emulator.reg[LastLog[3]]]_vars

\* STM r1,37 then LDM r2,5 have run in the memory program: r2 holds the 144
\* that r1 held, read back from cell 5
C31_Witness ==
    /\ LastLog = <<"dml", 2, 5>>
    /\ emulator.log_buffer[LogSize - 2] = <<"dms", 1, 5>>
    /\ emulator.reg[1] = 144
    /\ emulator.reg[2] = 144
    /\ emulator.ram[5] = 144
    /\ emulator.executed_instructions = 4

(***************************************************************************)
(* The run key on an empty machine: the ROM is all zero, as the            *)
(* construction and full_reset leave it, and the only key pressed is 'r'.  *)
(***************************************************************************)
SpecHalt == Init /\ [][LongRun]_vars

\* C32: with the ROM all zero every run key is followed by exactly one cycle
\* in the same iteration and the iteration ends in Setup, so no iteration
\* starts in Automatic mode; after k run keys, for k up to 63, pc = k, the
\* counter is k, and registers, RAM, I/O and flags have their reset values.
C32_ZeroRomRuns ==
    /\ [][LongRun => /\ CycleStep
                     /\ OpOf(Fetched) = 0
                     /\ emulator' \in {cycle([emulator EXCEPT !.mode = Automatic(0)]),
                                      cycle_panicked([emulator EXCEPT !.mode = Automatic(0)])}
                     /\ emulator'.mode = Setup]_vars
    /\ [](emulator.mode = Setup /\ emulator.rom = ZeroRom)
    /\ [](emulator.executed_instructions <= 63
            => /\ status = "running"
               /\ emulator.pc = emulator.executed_instructions
               /\ emulator.reg = [i \in 0..7 |-> 0]
               /\ emulator.ram = [i \in 0..31 |-> 0]
               /\ emulator.inp = [i \in 0..7 |-> 0]
               /\ emulator.out = [i \in 0..7 |-> 0]
               /\ emulator.flg = ResetFlags)

\* 63 run keys on the empty machine: pc and the counter are 63, the mode is
\* Setup and the last seven log entries are HALT lines
C32_Witness ==
    /\ emulator.executed_instructions = 63
    /\ emulator.pc = 63
    /\ emulator.mode = Setup
    /\ emulator.rom = ZeroRom
    /\ emulator.reg = [i \in 0..7 |-> 0]
    /\ \A i \in 0..(LogSize - 1) : emulator.log_buffer[i] = <<"int">>

====
